---- MODULE Spec2Model ----
(***************************************************************************)
(* Model of the sync engine of airweave:                                   *)
(*   backend/app/platform/sync/orchestrator.py  (SyncOrchestrator)         *)
(*   backend/app/platform/destinations/neo4j.py (Neo4jDestination)         *)
(* One orchestrator runs one sync job at a time.  A job pulls entities     *)
(* from the source generator, creates one asyncio task per entity, and     *)
(* every task runs _process_entity_with_semaphore.  A step of the model is *)
(* the code between two awaits, and every call that can raise has the      *)
(* outcomes "ok" and "raise".  This is the specification Spec.             *)
(*                                                                         *)
(* Three parts of the engine have their own specification over their own   *)
(* variable: the async source stream (StreamSpec), the status of the sync  *)
(* jobs (JobSpec) and the incremental pass of the access-control pipeline  *)
(* (AclSpec).                                                              *)
(***************************************************************************)
EXTENDS Integers, Sequences, FiniteSets, TLC

\* orchestrator.py:16 sets MAX_WORKERS = 20; the model runs the same code
\* with a narrower semaphore so that TLC can saturate it.
MAX_WORKERS == 2
\* Longest prefix of the source generator a job pulls.
MaxStream == 3
\* Number of consecutive jobs of the one sync.
MaxRuns == 2
\* Capacity of the buffer of the async source stream (the setting
\* STREAM_BUFFER).
STREAM_BUFFER == 2
\* Number of sync jobs whose status is followed.
MaxJobs == 3
\* Longest list of changes in a DirSync result.
MaxChanges == 2
\* Most nodes the graph database holds.
MaxNodes == 3
\* Longest batch of one bulk_insert.
MaxBatch == 2
\* Longest batch of one relationship write.
MaxRels == 2
\* Most entities the source of the task pool emits in one job.
MaxEntities == 5
\* Reads of the job status before the wait for its terminal state gives up.
MaxPolls == 2
\* Number of transformer nodes of the DAG.
MaxTransformers == 2
\* Number of HTTP calls followed.
MaxCalls == 3
\* Cap of the attempt counter of a call.
MaxCount == 6
\* Number of workers sharing the token manager.
MaxRefreshers == 3
\* Longest time a probe takes, in seconds.
MaxDuration == 6
\* Number of OAuth callbacks that carry the state of the session.
MaxCallbacks == 2

EntityIds == {"e1", "e2"}
Hashes == {"h1", "h2"}
\* sync_context.destinations, in the dict's iteration order.
DestinationNames == <<"d1", "d2">>
NumDest == Len(DestinationNames)

TaskIds == 1..MaxStream
NoRow == [id |-> <<"none", 0>>, entity_id |-> "none", hash |-> "none",
          sync_job_id |-> 0]
\* The upstream state the first job finds.
InitialContent == [e \in EntityIds |-> "h1"]

VARIABLES
    run,            \* sync_job.id of the current job, 0 before the first
    mainpc,         \* position of SyncOrchestrator.run
    content,        \* upstream state of this job: entity_id -> entity.hash()
    stream,         \* entities pulled from stream.get_entities() so far
    task,           \* the asyncio task of the i-th pulled entity
    pending_tasks,  \* the set pending_tasks of _process_stream_with_concurrency
    semaphore,      \* free slots of asyncio.Semaphore(MAX_WORKERS)
    entity_state,   \* rows of the entity table
    dest_deleted,   \* per destination: db_entity_ids a delete() was received for
    progress,       \* counters of sync_context.progress
    finalized,      \* calls of progress.finalize() in this job
    state_at_start, \* entity_state when the current job started
    prev,           \* this job reruns the previous one on an unchanged upstream
    storeFault,     \* a crud.entity call of this job raised
    destFailed,     \* tasks of this job for which a destination call raised
    cursor,         \* the stored sync cursor: the job whose window was read last
    error,          \* the exception run() is raising or has raised
    db_open,        \* tasks inside their `async with get_db_context() as db`
    source_stream,  \* the async source stream: buffer, producer, consumer
    sync_jobs,      \* status of every sync job
    acl,            \* the incremental pass of the access-control pipeline
    neo4j,          \* the graph destination: its nodes and its last edge write
    dag,            \* the sync DAG and the entity routed through it
    http,           \* the calls of AsanaSource._get_with_auth
    token_manager,  \* the token of a source connection and its refreshes
    health,         \* the readiness check in progress
    oauth,          \* one OAuth init session and the callbacks that carry it
    deletion,       \* the deletion of a source connection
    pool            \* the pending entity tasks of one job, counted

\* What neither the loop of the job nor an entity task assigns.
componentVars == <<neo4j, dag, http, token_manager, health>>
serviceVars == <<oauth, deletion, pool>>
otherVars == <<source_stream, sync_jobs, acl, componentVars, serviceVars>>
jobVars == <<run, content, state_at_start, prev, cursor, otherVars>>
mainVars == <<mainpc, stream, finalized, error>>
taskVars == <<task, pending_tasks, semaphore, db_open>>
vars == <<run, mainpc, content, stream, task, pending_tasks, semaphore,
          entity_state, dest_deleted, progress, finalized, state_at_start,
          prev, storeFault, destFailed, cursor, error, db_open,
          source_stream, sync_jobs, acl, neo4j, dag, http, token_manager,
          health, oauth, deletion, pool>>
\* The variables of the orchestrator.
syncVars == <<run, mainpc, content, stream, task, pending_tasks, semaphore,
              entity_state, dest_deleted, progress, finalized, state_at_start,
              prev, storeFault, destFailed, cursor, error, db_open>>

NoTask == [pc |-> "none", action |-> "none", db_entity |-> NoRow,
           db_entity_id |-> <<"none", 0>>, dest |-> 0]
ZeroProgress == [inserted |-> 0, updated |-> 0, already_sync |-> 0,
                 skipped |-> 0, failed |-> 0]
\* prev.stream is what the previous job pulled, kept when the upstream has not
\* changed since: the generator then yields the same entities again.
NoPrev == [rerun |-> FALSE, stream |-> <<>>]
Terminal == {"none", "done", "failed", "cancelled"}
\* Positions of run() from which the scheduler can start the next job.
Ended == {"idle", "returned", "raised", "cancelled"}
HoldsSemaphore == {"decide", "persist", "dest_delete", "dest_insert"}
InDestinationCall == {"dest_delete", "dest_insert"}

\* A task of this job ended with an exception (the done callback logged it).
TaskRaised == \E i \in TaskIds : task[i].pc = "failed"

\* entity.hash() of the entity with this entity_id, as the source emits it.
EntityHash(e) == content[e]

RowsOf(rows, e) == {r \in rows : r.entity_id = e}

\* crud.entity.get_by_entity_and_sync_id: the row of the entity, if any.
GetByEntityAndSyncId(rows, e) ==
    IF RowsOf(rows, e) # {} THEN CHOOSE r \in RowsOf(rows, e) : TRUE ELSE NoRow

\* Mutant: a stored row is rewritten whatever its hash.
NeverKeep(db_entity, h) ==
    IF db_entity # NoRow THEN "UPDATE" ELSE "INSERT"

\* Mutant: the comparison of the hashes is inverted.
HashCompareInverted(db_entity, h) ==
    IF db_entity # NoRow
    THEN IF db_entity.hash = h THEN "UPDATE" ELSE "KEEP"
    ELSE "INSERT"

DetermineEntityAction(db_entity, h) ==
    IF db_entity # NoRow
    THEN IF db_entity.hash # h THEN "UPDATE" ELSE "KEEP"
    ELSE "INSERT"

\* Async source stream not yet opened.
StreamIdle ==
    source_stream = [queue |-> <<>>, producer |-> "idle", consumer |-> "idle",
                     generated |-> 0, delivered |-> <<>>]

JobIds == 1..MaxJobs
\* No sync job created yet.
JobsIdle == sync_jobs = [j \in JobIds |-> "none"]

\* No access-control pass: the value of acl in the other specifications.
NoAclPass == [pc |-> "none"]

\* No connection to the graph database yet.
Neo4jIdle == [pc |-> "closed"]
\* No SyncContext built yet.
NoDag == [pc |-> "none"]
HttpCalls == 1..MaxCalls
\* No request sent yet.
HttpIdle == [c \in HttpCalls |-> [pc |-> "idle", attempt |-> 0]]
Workers == 1..MaxRefreshers
\* The token of the connection is fresh and no worker is using it.
TokenIdle == [expired |-> FALSE, lock |-> 0, in_flight |-> {},
              worker |-> [w \in Workers |-> "idle"]]
\* No readiness request.
HealthIdle == [pc |-> "none"]

Callbacks == 1..MaxCallbacks
Records == {"credential", "connection", "sync", "shell", "session"}
SessionState == "state-1"
\* A pending init session with its shell; no callback has arrived.
OAuthIdle ==
    [session |-> "PENDING",
     persisted |-> [r \in Records |-> {}],
     cb |-> [c \in Callbacks |->
                [pc |-> "idle", state |-> "none", federated |-> FALSE,
                 exchanged |-> FALSE, tx |-> {}, writes |-> 0]]]
\* No delete request.
NoDeletion == [pc |-> "none"]
\* No job is processing a stream.
PoolIdle == [pc |-> "idle"]

\* The state after construction of everything but the access-control pass.
BaseInit ==
    /\ StreamIdle
    /\ JobsIdle
    /\ neo4j = Neo4jIdle
    /\ dag = NoDag
    /\ http = HttpIdle
    /\ token_manager = TokenIdle
    /\ health = HealthIdle
    /\ oauth = OAuthIdle
    /\ deletion = NoDeletion
    /\ pool = PoolIdle
    /\ run = 0
    /\ mainpc = "idle"
    /\ content = InitialContent
    /\ stream = <<>>
    /\ task = [i \in TaskIds |-> NoTask]
    /\ pending_tasks = {}
    /\ semaphore = MAX_WORKERS
    /\ entity_state = {}
    /\ dest_deleted = [d \in 1..NumDest |-> {}]
    /\ progress = ZeroProgress
    /\ finalized = 0
    /\ state_at_start = {}
    /\ prev = NoPrev
    /\ storeFault = FALSE
    /\ destFailed = {}
    /\ cursor = 0
    /\ error = "none"
    /\ db_open = {}

Init == BaseInit /\ acl = NoAclPass

(***************************************************************************)
(* SyncOrchestrator.run and _process_stream_with_concurrency               *)
(***************************************************************************)

\* A job starts: the scheduler builds a SyncContext (fresh SyncProgress, fresh
\* semaphore) and calls run().  The upstream state c of the job is chosen
\* here; hashes are opaque, so the first job's upstream is InitialContent.
\* With rerun the upstream is the one the previous job read to its end with
\* no entity task raising; otherwise it is any upstream.
StartRun(c, rerun) ==
    /\ mainpc \in Ended
    /\ run < MaxRuns
    /\ run = 0 => c = InitialContent
    /\ rerun => mainpc = "returned" /\ ~TaskRaised /\ c = content
    /\ \A i \in TaskIds : task[i].pc \in Terminal
    /\ run' = run + 1
    /\ mainpc' = "loop"
    /\ content' = c
    /\ stream' = <<>>
    /\ task' = [i \in TaskIds |-> NoTask]
    /\ pending_tasks' = {}
    /\ semaphore' = MAX_WORKERS
    /\ progress' = ZeroProgress
    /\ finalized' = 0
    /\ state_at_start' = entity_state
    /\ prev' = IF rerun THEN [rerun |-> TRUE, stream |-> stream] ELSE NoPrev
    /\ storeFault' = FALSE
    /\ destFailed' = {}
    /\ error' = "none"
    /\ db_open' = {}
    /\ UNCHANGED <<entity_state, dest_deleted, cursor, otherVars>>

\* One iteration of `async for entity in stream.get_entities()`: a task is
\* created for the entity and added to pending_tasks.  With 2 * MAX_WORKERS
\* tasks pending the loop awaits _wait_for_tasks, which returns when a task
\* completed or after its timeout of 0.5 s, logs the exceptions of the done
\* tasks and changes nothing: the loop is then back at this step.
NextEntity(e) ==
    /\ mainpc = "loop"
    /\ Len(stream) < MaxStream
    /\ prev.rerun => /\ Len(stream) < Len(prev.stream)
                      /\ e = prev.stream[Len(stream) + 1]
    /\ stream' = Append(stream, e)
    /\ task' = [task EXCEPT ![Len(stream) + 1].pc = "waiting"]
    /\ pending_tasks' = pending_tasks \cup {Len(stream) + 1}
    /\ UNCHANGED <<jobVars, mainpc, finalized, error, semaphore, db_open,
                   entity_state, dest_deleted, progress, storeFault, destFailed>>

\* The generator is exhausted: the loop ends.
EndOfStream ==
    /\ mainpc = "loop"
    /\ prev.rerun => Len(stream) = Len(prev.stream)
    /\ mainpc' = "wait_all"
    /\ UNCHANGED <<jobVars, stream, finalized, error, taskVars, entity_state,
                   dest_deleted, progress, storeFault, destFailed>>

\* `async for entity in stream.get_entities()` raises: the generator of the
\* source failed.  The exception leaves _process_stream_with_concurrency at
\* once, past _wait_for_all_pending_tasks; the tasks created so far are neither
\* awaited nor cancelled.  A job that reruns the previous one finds the
\* generator as it was, so it does not raise.
SourceRaises ==
    /\ mainpc = "loop"
    /\ ~prev.rerun
    /\ mainpc' = "finalize_raised"
    /\ error' = "source"
    /\ UNCHANGED <<jobVars, stream, finalized, taskVars, entity_state,
                   dest_deleted, progress, storeFault, destFailed>>

\* The class of the exception an entity task ends with.
TaskException == "Exception"

\* Mutant: the exception of an awaited task is raised again.
ReraisedAlways(exc) == TRUE

\* `except Exception as e: ... if isinstance(e, (KeyboardInterrupt,
\* SystemExit)): raise` of the two wait functions.
Reraised(exc) == exc \in {"KeyboardInterrupt", "SystemExit"}

\* _wait_for_all_pending_tasks returns once pending_tasks is empty; the
\* exceptions of the awaited tasks are logged and raised again only if
\* Reraised.
WaitForAllPendingTasks ==
    /\ mainpc = "wait_all"
    /\ pending_tasks = {}
    /\ IF TaskRaised /\ Reraised(TaskException)
       THEN mainpc' = "finalize_raised" /\ error' = "task"
       ELSE mainpc' = "finalize_stream" /\ UNCHANGED error
    /\ UNCHANGED <<jobVars, stream, finalized, taskVars, entity_state,
                   dest_deleted, progress, storeFault, destFailed>>

\* The finally clause of _process_entity_stream on the way of an exception;
\* run() logs the exception and raises it, and so does SyncService.run.
FinalizeRaised ==
    /\ mainpc = "finalize_raised"
    /\ finalized' = finalized + 1
    /\ mainpc' = "raised"
    /\ UNCHANGED <<jobVars, stream, error, taskVars, entity_state, dest_deleted,
                   progress, storeFault, destFailed>>

\* The finally clause of _process_entity_stream.
FinalizeStream ==
    /\ mainpc = "finalize_stream"
    /\ finalized' = finalized + 1
    /\ mainpc' = "finalize_run"
    /\ UNCHANGED <<jobVars, stream, error, taskVars, entity_state, dest_deleted,
                   progress, storeFault, destFailed>>

\* run() finalizes progress and returns sync_context.sync.
FinalizeRun ==
    /\ mainpc = "finalize_run"
    /\ finalized' = finalized + 1
    /\ mainpc' = "returned"
    /\ UNCHANGED <<jobVars, stream, error, taskVars, entity_state, dest_deleted,
                   progress, storeFault, destFailed>>

\* The job is cancelled while run() awaits: CancelledError is no Exception, so
\* only the finally clause of _process_entity_stream runs.
Cancel ==
    /\ mainpc \in {"loop", "wait_all"}
    /\ mainpc' = "cancelled"
    /\ finalized' = finalized + 1
    /\ UNCHANGED <<jobVars, stream, error, taskVars, entity_state, dest_deleted,
                   progress, storeFault, destFailed>>

(***************************************************************************)
(* The entity task: _process_entity_with_semaphore                         *)
(***************************************************************************)

\* The task leaves `async with semaphore` and ends; its done callback
\* (_handle_task_completion) discards it from pending_tasks.
Finished(i, how) ==
    /\ task' = [task EXCEPT ![i] = [NoTask EXCEPT !.pc = how]]
    /\ semaphore' = semaphore + 1
    /\ pending_tasks' = pending_tasks \ {i}
    /\ db_open' = db_open \ {i}

\* Mutant: the semaphore never blocks.
SemaphoreNeverFull == TRUE

\* async with semaphore: a free slot is taken.
SemaphoreFree == semaphore > 0

\* The task starts: it enters the semaphore, opens its session, enriches the
\* entity and issues the read of _determine_entity_action.
Acquire(i) ==
    /\ task[i].pc = "waiting"
    /\ SemaphoreFree
    /\ semaphore' = semaphore - 1
    /\ task' = [task EXCEPT ![i].pc = "decide"]
    /\ db_open' = db_open \cup {i}
    /\ UNCHANGED <<jobVars, mainVars, pending_tasks, entity_state,
                   dest_deleted, progress, storeFault, destFailed>>

\* Mutant: the early return on KEEP is missing.
NeverShortCircuits(action) == FALSE

\* `if action == DestinationAction.KEEP:` of _process_entity_with_semaphore.
ShortCircuits(action) == action = "KEEP"

\* The read of _determine_entity_action returns or raises; on KEEP the task
\* counts already_sync and returns, else it calls the router.
DetermineAction(i, outcome) ==
    /\ task[i].pc = "decide"
    /\ IF outcome = "raise"
       THEN /\ Finished(i, "failed")
            /\ storeFault' = TRUE
            /\ UNCHANGED progress
       ELSE LET db_entity == GetByEntityAndSyncId(entity_state, stream[i])
                action == DetermineEntityAction(db_entity, EntityHash(stream[i]))
            IN  /\ IF ShortCircuits(action)
                   THEN /\ Finished(i, "done")
                        /\ progress' = [progress EXCEPT
                                          !.already_sync = progress.already_sync + 1]
                   ELSE /\ task' = [task EXCEPT ![i].pc = "persist",
                                                ![i].action = action,
                                                ![i].db_entity = db_entity]
                        /\ UNCHANGED <<semaphore, pending_tasks, db_open, progress>>
                /\ UNCHANGED storeFault
    /\ UNCHANGED <<jobVars, mainVars, entity_state, dest_deleted, destFailed>>

\* Mutant: the entity table has no unique constraint.
NoUniqueConstraint(rows, e) == FALSE

\* UNIQUE(sync_id, entity_id) of the entity table: crud.entity.create raises
\* when the sync already has a row of this entity_id.
UniqueViolation(rows, e) == RowsOf(rows, e) # {}

\* The primary key of a new row: fresh, since rows are never deleted.
NewId(rows, e) == <<e, Cardinality(RowsOf(rows, e)) + 1>>

\* Mutant: an UPDATE skips the delete.
FirstCallAlwaysInsert(action) == "dest_insert"

\* Mutant: the hash written is the one the entity had when it was first seen.
HashOfFirstEmission(e) == InitialContent[e]

\* Mutant: the row is written before the hash is computed.
PlaceholderHash(e) == "none"

\* The hash _persist_entities writes: parent_entity.hash().
PersistedHash(e) == EntityHash(e)

\* Mutant: the update of the row is lost.
UpdateRowLost(rows, id, h) == rows

\* crud.entity.update(db_obj, EntityUpdate(hash)): the row of db_obj gets the hash.
UpdateRow(rows, id, h) ==
    {IF r.id = id THEN [r EXCEPT !.hash = h] ELSE r : r \in rows}

\* The first call to a destination, by action.
FirstCall(action) == IF action = "UPDATE" THEN "dest_delete" ELSE "dest_insert"

\* router.process_entity returns or raises ("router_raise"), then
\* _persist_entities writes the entity table: INSERT creates the row, UPDATE
\* rewrites its hash ("raise": the call raises); the counter is incremented
\* right after the write, and the first destination is called.  Called with
\* KEEP, _persist_entities counts skipped and returns.
PersistState(i, outcome) ==
    /\ task[i].pc = "persist"
    /\ LET e == stream[i]
           storeRaises == \/ outcome = "raise"
                          \/ /\ outcome = "ok"
                             /\ task[i].action = "INSERT"
                             /\ UniqueViolation(entity_state, e)
       IN  IF outcome = "router_raise" \/ storeRaises
           THEN /\ Finished(i, "failed")
                /\ storeFault' = (storeFault \/ storeRaises)
                /\ UNCHANGED <<entity_state, progress>>
           ELSE IF task[i].action = "KEEP"
           THEN /\ Finished(i, "done")
                /\ progress' = [progress EXCEPT !.skipped = progress.skipped + 1]
                /\ UNCHANGED <<entity_state, storeFault>>
           ELSE /\ IF task[i].action = "INSERT"
                   THEN /\ entity_state' = entity_state \cup
                              {[id |-> NewId(entity_state, e), entity_id |-> e,
                                hash |-> PersistedHash(e), sync_job_id |-> run]}
                        /\ task' = [task EXCEPT
                                      ![i].db_entity_id = NewId(entity_state, e),
                                      ![i].dest = 1,
                                      ![i].pc = FirstCall("INSERT")]
                        /\ progress' = [progress EXCEPT
                                          !.inserted = progress.inserted + 1]
                   ELSE /\ entity_state' = UpdateRow(entity_state,
                                                     task[i].db_entity.id,
                                                     PersistedHash(e))
                        /\ task' = [task EXCEPT
                                      ![i].db_entity_id = task[i].db_entity.id,
                                      ![i].dest = 1,
                                      ![i].pc = FirstCall("UPDATE")]
                        /\ progress' = [progress EXCEPT
                                          !.updated = progress.updated + 1]
                /\ UNCHANGED <<semaphore, pending_tasks, db_open, storeFault>>
    /\ UNCHANGED <<jobVars, mainVars, dest_deleted, destFailed>>

\* The end of one iteration of `for destination_name, destination in ...`:
\* the next destination, or the end of the task.
NextDestination(i) ==
    IF task[i].dest < NumDest
    THEN /\ task' = [task EXCEPT ![i].dest = task[i].dest + 1,
                                 ![i].pc = FirstCall(task[i].action)]
         /\ UNCHANGED <<semaphore, pending_tasks, db_open>>
    ELSE Finished(i, "done")

\* Mutant: the exception of a destination leaves the loop and ends the task.
DestinationErrorEscapes(i) == Finished(i, "failed")

\* `except Exception as e:` inside the loop over the destinations: the
\* exception is logged and the loop goes on.
AfterDestinationError(i) == NextDestination(i)

\* destination.delete(db_entity.id) of an UPDATE returns or raises.
DestinationDelete(i, outcome) ==
    /\ task[i].pc = "dest_delete"
    /\ IF outcome = "raise"
       THEN /\ destFailed' = destFailed \cup {i}
            /\ AfterDestinationError(i)
            /\ UNCHANGED dest_deleted
       ELSE /\ dest_deleted' = [dest_deleted EXCEPT
                                  ![task[i].dest] = @ \cup {task[i].db_entity.id}]
            /\ task' = [task EXCEPT ![i].pc = "dest_insert"]
            /\ UNCHANGED <<semaphore, pending_tasks, db_open, destFailed>>
    /\ UNCHANGED <<jobVars, mainVars, entity_state, progress, storeFault>>

\* destination.bulk_insert(processed_entities) returns or raises.
DestinationBulkInsert(i, outcome) ==
    /\ task[i].pc = "dest_insert"
    /\ IF outcome = "raise"
       THEN /\ destFailed' = destFailed \cup {i}
            /\ AfterDestinationError(i)
       ELSE /\ NextDestination(i)
            /\ UNCHANGED destFailed
    /\ UNCHANGED <<jobVars, mainVars, entity_state, dest_deleted, progress,
                   storeFault>>

\* After the job was cancelled the event loop may cancel a task that is still
\* at an await; a task it does not cancel runs on.
CancelTask(i) ==
    /\ mainpc = "cancelled"
    /\ task[i].pc \notin Terminal
    /\ task' = [task EXCEPT ![i] = [NoTask EXCEPT !.pc = "cancelled"]]
    /\ semaphore' = IF task[i].pc \in HoldsSemaphore
                    THEN semaphore + 1 ELSE semaphore
    /\ pending_tasks' = pending_tasks \ {i}
    /\ db_open' = db_open \ {i}
    /\ UNCHANGED <<jobVars, mainVars, entity_state, dest_deleted, progress,
                   storeFault, destFailed>>

Next ==
    \/ \E c \in [EntityIds -> Hashes], rerun \in BOOLEAN : StartRun(c, rerun)
    \/ \E e \in EntityIds : NextEntity(e)
    \/ EndOfStream
    \/ SourceRaises
    \/ WaitForAllPendingTasks
    \/ FinalizeStream
    \/ FinalizeRaised
    \/ FinalizeRun
    \/ Cancel
    \/ \E i \in TaskIds : Acquire(i)
    \/ \E i \in TaskIds, o \in {"ok", "raise"} : DetermineAction(i, o)
    \/ \E i \in TaskIds, o \in {"ok", "router_raise", "raise"} : PersistState(i, o)
    \/ \E i \in TaskIds, o \in {"ok", "raise"} : DestinationDelete(i, o)
    \/ \E i \in TaskIds, o \in {"ok", "raise"} : DestinationBulkInsert(i, o)
    \/ \E i \in TaskIds : CancelTask(i)

Spec == Init /\ [][Next]_vars

(***************************************************************************)
(* The async source stream (AsyncSourceStream), between the generator of   *)
(* the source and the loop of the orchestrator.                            *)
(***************************************************************************)

\* `async with AsyncSourceStream(...) as stream`: the producer coroutine starts.
StreamOpen ==
    /\ source_stream.producer = "idle"
    /\ source_stream' = [source_stream EXCEPT !.producer = "running",
                                               !.consumer = "running"]
    /\ UNCHANGED <<syncVars, sync_jobs, acl, componentVars, serviceVars>>

\* Mutant: the buffer is unbounded.
QueueNeverFull(q) == FALSE

\* The buffer holds its capacity: a put suspends the producer.
QueueFull(q) == Len(q) >= STREAM_BUFFER

\* The producer takes the next entity from the generator and puts it into the
\* buffer; it is suspended while the buffer is full.
Produce(e) ==
    /\ source_stream.producer = "running"
    /\ source_stream.generated < MaxStream
    /\ ~QueueFull(source_stream.queue)
    /\ source_stream' = [source_stream EXCEPT
                            !.queue = Append(@, e),
                            !.generated = @ + 1]
    /\ UNCHANGED <<syncVars, sync_jobs, acl, componentVars, serviceVars>>

\* The generator is exhausted ("exhausted") or raises ("raised").
ProducerEnds(how) ==
    /\ source_stream.producer = "running"
    /\ source_stream' = [source_stream EXCEPT !.producer = how]
    /\ UNCHANGED <<syncVars, sync_jobs, acl, componentVars, serviceVars>>

\* get_entities yields the oldest buffered entity to the consumer.
Consume ==
    /\ source_stream.consumer = "running"
    /\ source_stream.queue # <<>>
    /\ source_stream' = [source_stream EXCEPT
                            !.queue = Tail(@),
                            !.delivered = Append(@, Head(source_stream.queue))]
    /\ UNCHANGED <<syncVars, sync_jobs, acl, componentVars, serviceVars>>

\* With the buffer drained, get_entities ends when the generator is
\* exhausted and raises the generator's exception when it raised.
ConsumerEnds ==
    /\ source_stream.consumer = "running"
    /\ source_stream.queue = <<>>
    /\ source_stream.producer \in {"exhausted", "raised"}
    /\ source_stream' = [source_stream EXCEPT
                            !.consumer = IF source_stream.producer = "raised"
                                         THEN "raised" ELSE "ended"]
    /\ UNCHANGED <<syncVars, sync_jobs, acl, componentVars, serviceVars>>

\* The stream is closed (any exit of the `async with`): the producer is
\* cancelled and the buffer is dropped.
StreamClose ==
    /\ source_stream.producer # "idle"
    /\ source_stream.consumer # "closed"
    /\ source_stream' = [source_stream EXCEPT
                            !.queue = <<>>,
                            !.producer = IF @ = "running" THEN "cancelled" ELSE @,
                            !.consumer = "closed"]
    /\ UNCHANGED <<syncVars, sync_jobs, acl, componentVars, serviceVars>>

StreamNext ==
    \/ StreamOpen
    \/ \E e \in EntityIds : Produce(e)
    \/ \E how \in {"exhausted", "raised"} : ProducerEnds(how)
    \/ Consume
    \/ ConsumerEnds
    \/ StreamClose

StreamSpec == Init /\ [][StreamNext]_vars

(***************************************************************************)
(* The status of a sync job (the sync-job lifecycle).                      *)
(***************************************************************************)

TerminalStatus == {"completed", "failed", "cancelled", "timed_out"}

\* crud.sync_job.create in run_sync: SyncJob(status=pending).
CreateSyncJob(j) ==
    /\ sync_jobs[j] = "none"
    /\ sync_jobs' = [sync_jobs EXCEPT ![j] = "pending"]
    /\ UNCHANGED <<syncVars, source_stream, acl, componentVars, serviceVars>>

\* Mutant: a job is restarted from whatever status it has.
StartableAlways(status) == status # "none"

\* The status from which a job transitions to running.
Startable(status) == status = "pending"

\* The job starts: transition to running.
StartSyncJob(j) ==
    /\ Startable(sync_jobs[j])
    /\ sync_jobs' = [sync_jobs EXCEPT ![j] = "running"]
    /\ UNCHANGED <<syncVars, source_stream, acl, componentVars, serviceVars>>

\* The run of the job ends: on success completed, on unrecoverable error
\* failed, on external cancel cancelled, on the wall-clock deadline timed_out.
EndSyncJob(j, status) ==
    /\ sync_jobs[j] = "running"
    /\ sync_jobs' = [sync_jobs EXCEPT ![j] = status]
    /\ UNCHANGED <<syncVars, source_stream, acl, componentVars, serviceVars>>

JobNext ==
    \/ \E j \in JobIds : CreateSyncJob(j)
    \/ \E j \in JobIds : StartSyncJob(j)
    \/ \E j \in JobIds, status \in TerminalStatus : EndSyncJob(j, status)

JobSpec == Init /\ [][JobNext]_vars

(***************************************************************************)
(* The incremental pass of the access-control pipeline                     *)
(* (AccessControlPipeline._process_incremental): the memberships table is  *)
(* brought up to date with the DirSync result of source.get_acl_changes.   *)
(***************************************************************************)

Groups == {"gA", "gB"}
\* A member is the key (member_id, member_type).
Members == {"alice", "bob"}
\* A row of the memberships table of the connection: <<group_id, member>>.
MembershipRows == Groups \X Members
Change == [change_type : {"ADD", "REMOVE"}, group_id : Groups, member : Members]
ChangeLists == UNION {[1..n -> Change] : n \in 0..MaxChanges}

\* The DirSync results a source returns: with BASIC flags
\* (incremental_values = FALSE) the member lists come as ADDs, with no REMOVE.
DirSyncResults ==
    {r \in [changes : ChangeLists, modified_group_ids : SUBSET Groups,
            deleted_group_ids : SUBSET Groups, incremental_values : BOOLEAN,
            cookie_b64 : {"new_cookie"}] :
        ~r.incremental_values =>
            \A k \in 1..Len(r.changes) : r.changes[k].change_type = "ADD"}

\* The pass starts with any memberships table and any DirSync result.
AclInit ==
    /\ BaseInit
    /\ \E rows \in SUBSET MembershipRows, r \in DirSyncResults :
          acl = [pc |-> "start", memberships |-> rows, before |-> rows,
                 result |-> r, adds |-> 0, removes |-> 0, queried |-> {},
                 deleted |-> 0, total |-> 0, cookie |-> "old_cookie",
                 source_error |-> FALSE]

\* The rows the ADD changes of a result name (dirsync_members_by_group).
Added(changes) ==
    {<<changes[k].group_id, changes[k].member>> :
        k \in {n \in 1..Len(changes) : changes[n].change_type = "ADD"}}

\* The table after the changes were applied in order: ADD upserts the row,
\* REMOVE deletes it by key.
RECURSIVE ApplyChanges(_, _)
ApplyChanges(rows, changes) ==
    IF changes = <<>> THEN rows
    ELSE LET c == Head(changes)
             row == <<c.group_id, c.member>>
         IN  ApplyChanges(IF c.change_type = "ADD" THEN rows \cup {row}
                                                    ELSE rows \ {row},
                          Tail(changes))

CountOf(changes, type) ==
    Cardinality({k \in 1..Len(changes) : changes[k].change_type = type})

\* Mutant: the exception of the source ends the pass.
SourceErrorAborts == "aborted"

\* `except Exception` around source.get_acl_changes: the pass goes on with
\* _process_full.
AfterSourceError == "full"

\* Mutant: a result with no change leaves the stored cookie as it was.
CookieKept(stored, new) == stored

\* The cookie stored for a result with no change: the cookie of the result.
CookieWhenNoChanges(stored, new) == new

\* source.get_acl_changes returns the result or raises; a result with no
\* change and no deleted group only advances the cookie.
GetAclChanges(outcome) ==
    /\ acl.pc = "start"
    /\ acl' = IF outcome = "raise"
              THEN [acl EXCEPT !.pc = AfterSourceError, !.source_error = TRUE]
              ELSE IF acl.result.changes = <<>> /\ acl.result.deleted_group_ids = {}
              THEN [acl EXCEPT !.pc = "done",
                               !.cookie = CookieWhenNoChanges(@, acl.result.cookie_b64)]
              ELSE [acl EXCEPT !.pc = "apply"]
    /\ UNCHANGED <<syncVars, source_stream, sync_jobs, componentVars,
                   serviceVars>>

\* Mutant: the flag of the result is not looked at.
ReconciliationDueWhateverFlags(result) == result.modified_group_ids # {}

\* Reconciliation is due: BASIC flags and some modified group.
ReconciliationDue(result) ==
    ~result.incremental_values /\ result.modified_group_ids # {}

\* _apply_membership_changes: every ADD is upserted and every REMOVE deleted.
ApplyMembershipChanges ==
    /\ acl.pc = "apply"
    /\ acl' = [acl EXCEPT
                 !.memberships = ApplyChanges(@, acl.result.changes),
                 !.adds = CountOf(acl.result.changes, "ADD"),
                 !.removes = CountOf(acl.result.changes, "REMOVE"),
                 !.pc = IF ReconciliationDue(acl.result)
                        THEN "reconcile" ELSE "deleted_groups"]
    /\ UNCHANGED <<syncVars, source_stream, sync_jobs, componentVars,
                   serviceVars>>

\* Mutant: a modified group with no ADD in the result is skipped.
StaleRowsOfListedGroups(rows, modified, added) ==
    {row \in rows : /\ row[1] \in modified
                    /\ \E a \in added : a[1] = row[1]
                    /\ row \notin added}

\* The rows of the modified groups that the DirSync ADDs do not name.
StaleRows(rows, modified, added) ==
    {row \in rows : row[1] \in modified /\ row \notin added}

\* _reconcile_modified_groups: the current members of the modified groups
\* are read (get_memberships_by_groups) and the stale ones deleted by key;
\* the number of deletions is added to the removes.
ReconcileModifiedGroups ==
    /\ acl.pc = "reconcile"
    /\ LET stale == StaleRows(acl.memberships, acl.result.modified_group_ids,
                              Added(acl.result.changes))
       IN  acl' = [acl EXCEPT
                     !.queried = acl.result.modified_group_ids,
                     !.memberships = @ \ stale,
                     !.removes = @ + Cardinality(stale),
                     !.pc = "deleted_groups"]
    /\ UNCHANGED <<syncVars, source_stream, sync_jobs, componentVars,
                   serviceVars>>

\* Mutant: delete_by_group deletes nothing.
NoRowsOfGroups(rows, groups) == {}

\* The rows delete_by_group deletes for these groups: all their rows.
RowsOfGroups(rows, groups) == {row \in rows : row[1] \in groups}

\* delete_by_group for every deleted group: all its rows go, the count comes
\* back.
DeleteGroups ==
    /\ acl.pc = "deleted_groups"
    /\ LET gone == RowsOfGroups(acl.memberships, acl.result.deleted_group_ids)
       IN  acl' = [acl EXCEPT
                     !.memberships = @ \ gone,
                     !.deleted = Cardinality(gone),
                     !.pc = "cursor"]
    /\ UNCHANGED <<syncVars, source_stream, sync_jobs, componentVars,
                   serviceVars>>

\* The cookie of the result becomes the stored acl_dirsync_cookie and the
\* pass returns the number of changes.
UpdateCursor ==
    /\ acl.pc = "cursor"
    /\ acl' = [acl EXCEPT
                 !.cookie = acl.result.cookie_b64,
                 !.total = acl.adds + acl.removes + acl.deleted,
                 !.pc = "done"]
    /\ UNCHANGED <<syncVars, source_stream, sync_jobs, componentVars,
                   serviceVars>>

\* The fallback _process_full: the memberships of the connection are read
\* again in full and its count is returned.
ProcessFull(rows) ==
    /\ acl.pc = "full"
    /\ acl' = [acl EXCEPT
                 !.memberships = rows,
                 !.total = Cardinality(rows),
                 !.pc = "done_full"]
    /\ UNCHANGED <<syncVars, source_stream, sync_jobs, componentVars,
                   serviceVars>>

AclNext ==
    \/ \E outcome \in {"ok", "raise"} : GetAclChanges(outcome)
    \/ ApplyMembershipChanges
    \/ ReconcileModifiedGroups
    \/ DeleteGroups
    \/ UpdateCursor
    \/ \E rows \in SUBSET MembershipRows : ProcessFull(rows)

AclSpec == AclInit /\ [][AclNext]_vars

(***************************************************************************)
(* The graph destination (destinations/neo4j.py) and the relationship      *)
(* writes of the orchestrator.  Every node carries one label here, so a    *)
(* batch is one label group; an edge is its position in the batch and      *)
(* carries a relationship type.                                            *)
(***************************************************************************)

NodeIds == {"n1", "n2"}
Node == [db_entity_id : NodeIds, hash : Hashes]
NodeBatches == UNION {[1..n -> Node] : n \in 1..MaxBatch}
RelTypes == {"t1", "t2"}
RelBatches == UNION {[1..n -> RelTypes] : n \in 1..MaxRels}
NoRelWrite == [rels |-> <<>>, raised |-> FALSE, failed_types |-> {},
               edge_failed |-> {}, attempted |-> <<>>, written |-> {}]

\* The graph database is reached.  The constraints of setup_collection are
\* in the database or are not: nothing of the run creates them.
Neo4jConnect(constrained) ==
    /\ neo4j = Neo4jIdle
    /\ neo4j' = [pc |-> "open", constrained |-> constrained, nodes |-> <<>>,
                 inserted |-> [id \in NodeIds |-> "none"],
                 rel |-> NoRelWrite]
    /\ UNCHANGED <<syncVars, source_stream, sync_jobs, acl, dag, http,
                   token_manager, health,
                   serviceVars>>

NodesWith(nodes, id) == {k \in DOMAIN nodes : nodes[k].db_entity_id = id}

\* REQUIRE e.db_entity_id IS UNIQUE, when the constraint exists.
ViolatesUnique(constrained, nodes) ==
    /\ constrained
    /\ \E id \in NodeIds : Cardinality(NodesWith(nodes, id)) > 1

\* CREATE (n:Entity:label) SET n = $properties
CreateNode(constrained, nodes, node) ==
    IF ViolatesUnique(constrained, Append(nodes, node))
    THEN [ok |-> FALSE, nodes |-> nodes]
    ELSE [ok |-> TRUE, nodes |-> Append(nodes, node)]

\* The loop over the nodes of a failed group: a failing node is logged.
RECURSIVE CreateNodesIndividually(_, _, _)
CreateNodesIndividually(constrained, nodes, group) ==
    IF group = <<>> THEN nodes
    ELSE CreateNodesIndividually(
             constrained, CreateNode(constrained, nodes, Head(group)).nodes,
             Tail(group))

\* UNWIND $nodes CREATE (n) SET n = node.properties SET n:Entity: one
\* statement, all of it or nothing; then node by node when it failed.
BulkCreateNodes(constrained, nodes, group) ==
    IF ViolatesUnique(constrained, nodes \o group)
    THEN CreateNodesIndividually(constrained, nodes, group)
    ELSE nodes \o group

\* The content last handed to bulk_insert under this id.
LastOf(batch, id) == batch[CHOOSE k \in NodesWith(batch, id) :
                               \A m \in NodesWith(batch, id) : m <= k].hash

Neo4jBulkInsert(batch) ==
    /\ neo4j.pc = "open"
    /\ Len(neo4j.nodes) + Len(batch) <= MaxNodes
    /\ neo4j' = [neo4j EXCEPT
           !.nodes = BulkCreateNodes(neo4j.constrained, neo4j.nodes, batch),
           !.inserted = [id \in NodeIds |->
                            IF NodesWith(batch, id) # {}
                            THEN LastOf(batch, id) ELSE neo4j.inserted[id]]]
    /\ UNCHANGED <<syncVars, source_stream, sync_jobs, acl, dag, http,
                   token_manager, health,
                   serviceVars>>

\* MATCH (e:Entity {db_entity_id: $id}) DETACH DELETE e
Neo4jDelete(id) ==
    /\ neo4j.pc = "open"
    /\ neo4j' = [neo4j EXCEPT
           !.nodes = SelectSeq(neo4j.nodes,
                               LAMBDA n : n.db_entity_id # id),
           !.inserted[id] = "none"]
    /\ UNCHANGED <<syncVars, source_stream, sync_jobs, acl, dag, http,
                   token_manager, health,
                   serviceVars>>

Range(s) == {s[k] : k \in DOMAIN s}
Indices(s) == [k \in DOMAIN s |-> k]

\* rel_type_groups: the types of the batch in the order of first occurrence.
RECURSIVE RelTypeGroups(_, _)
RelTypeGroups(rels, acc) ==
    IF rels = <<>> THEN acc
    ELSE RelTypeGroups(Tail(rels),
                       IF Head(rels) \in Range(acc) THEN acc
                       ELSE Append(acc, Head(rels)))

GroupOf(rels, type) == SelectSeq(Indices(rels), LAMBDA k : rels[k] = type)

\* Mutant: the failure of one edge ends the loop over the edges.
EdgeFailureStopsLoop(failed) == failed

\* `except Exception as inner_e` around create_relationship: logged only.
EdgeFailureEscapes(failed) == FALSE

\* The edges create_relationship is called for, in order.
RECURSIVE CreateIndividually(_, _)
CreateIndividually(group, bad) ==
    IF group = <<>> THEN <<>>
    ELSE IF EdgeFailureEscapes(Head(group) \in bad) THEN <<Head(group)>>
    ELSE <<Head(group)>> \o CreateIndividually(Tail(group), bad)

\* The loop of bulk_create_relationships over the type groups.
RECURSIVE BulkCreateRelationships(_, _, _, _)
BulkCreateRelationships(rels, types, failing, bad) ==
    IF types = <<>> THEN [attempted |-> <<>>, written |-> {}]
    ELSE LET group == GroupOf(rels, Head(types))
             rest == BulkCreateRelationships(rels, Tail(types), failing, bad)
             single == CreateIndividually(group, bad)
         IN  IF Head(types) \in failing
             THEN [attempted |-> single \o rest.attempted,
                   written |-> (Range(single) \ bad) \cup rest.written]
             ELSE [attempted |-> rest.attempted,
                   written |-> Range(group) \cup rest.written]

\* _process_relationships hands the batch to bulk_create_relationships;
\* when that call raises (`raises`: the conversion of the properties
\* failed) it writes every relationship of the batch itself.  `failing` are
\* the types whose statement fails, `bad` the edges whose own write fails.
ProcessRelationships(rels, raises, failing, bad) ==
    /\ neo4j.pc = "open"
    /\ LET single == CreateIndividually(Indices(rels), bad)
           bulk == BulkCreateRelationships(rels, RelTypeGroups(rels, <<>>),
                                           failing, bad)
       IN  neo4j' = [neo4j EXCEPT !.rel =
               IF raises
               THEN [rels |-> rels, raised |-> TRUE, failed_types |-> {},
                     edge_failed |-> bad \cap Range(single),
                     attempted |-> single,
                     written |-> Range(single) \ bad]
               ELSE [rels |-> rels, raised |-> FALSE,
                     failed_types |-> failing \cap Range(rels),
                     edge_failed |-> bad \cap Range(bulk.attempted),
                     attempted |-> bulk.attempted,
                     written |-> bulk.written]]
    /\ UNCHANGED <<syncVars, source_stream, sync_jobs, acl, dag, http,
                   token_manager, health,
                   serviceVars>>

\* The node writes of the destination.
Neo4jNext ==
    \/ \E constrained \in BOOLEAN : Neo4jConnect(constrained)
    \/ \E batch \in NodeBatches : Neo4jBulkInsert(batch)
    \/ \E id \in NodeIds : Neo4jDelete(id)

Neo4jSpec == Init /\ [][Neo4jNext]_vars

\* The relationship writes that follow them.
RelationshipNext ==
    \/ \E constrained \in BOOLEAN : Neo4jConnect(constrained)
    \/ \E rels \in RelBatches, raises \in BOOLEAN,
          failing \in SUBSET RelTypes, bad \in SUBSET (1..MaxRels) :
          ProcessRelationships(rels, raises, failing, bad)

RelationshipSpec == Init /\ [][RelationshipNext]_vars

(***************************************************************************)
(* The sync DAG and its router (router.py is not part of the sources: the  *)
(* router is the one section 4.6 of the specification describes), and the  *)
(* way _process_entity_with_semaphore sends one entity through it.         *)
(***************************************************************************)

Transformers == {<<"transformer", k>> : k \in 1..MaxTransformers}
SourceNode == <<"source", 0>>
DestinationNode == <<"destination", 0>>
\* An edge leads from the source or a transformer to a later transformer
\* or to the destination.
DagEdges ==
    {e \in (({SourceNode} \cup Transformers)
            \X (Transformers \cup {DestinationNode})) :
        e[1][1] = "transformer" /\ e[2][1] = "transformer"
            => e[1][2] < e[2][2]}

\* SyncContext.create: the DAG of the sync and the router over it.
LoadDag(edges) ==
    /\ dag = NoDag
    /\ dag' = [pc |-> "loaded", edges |-> edges, entity |-> "none",
               action |-> "none", children |-> {}]
    /\ UNCHANGED <<syncVars, source_stream, sync_jobs, acl, neo4j, http,
                   token_manager, health,
                   serviceVars>>

RECURSIVE ReachableFrom(_, _)
ReachableFrom(edges, nodes) ==
    LET next == nodes \cup {e[2] : e \in {x \in edges : x[1] \in nodes}}
    IN  IF next = nodes THEN nodes ELSE ReachableFrom(edges, next)

HasPath(edges, producer) ==
    DestinationNode \in ReachableFrom(edges, {producer})

\* router.process_entity: the entities to persist; none when no chain of
\* transformers leads from the producer to a destination.
RouterProcessEntity(edges, producer, e) ==
    IF HasPath(edges, producer) THEN {e} ELSE {}

\* One entity task up to its return value (processed_entities, action).
\* `stored` is the hash of the row of the entity, "none" without a row.
ProcessEntityWithSemaphore(e, h, stored) ==
    /\ dag.pc \in {"loaded", "processed"}
    /\ LET db_entity == IF stored = "none" THEN NoRow
                        ELSE [NoRow EXCEPT !.entity_id = e, !.hash = stored]
           action == DetermineEntityAction(db_entity, h)
       IN  dag' = [dag EXCEPT
               !.pc = "processed",
               !.entity = e,
               !.action = action,
               !.children = IF ShortCircuits(action) THEN {}
                            ELSE RouterProcessEntity(dag.edges, SourceNode,
                                                     e)]
    /\ UNCHANGED <<syncVars, source_stream, sync_jobs, acl, neo4j, http,
                   token_manager, health,
                   serviceVars>>

DagNext ==
    \/ \E edges \in SUBSET DagEdges : LoadDag(edges)
    \/ \E e \in EntityIds, h \in Hashes, stored \in Hashes \cup {"none"} :
          ProcessEntityWithSemaphore(e, h, stored)

DagSpec == Init /\ [][DagNext]_vars

(***************************************************************************)
(* AsanaSource._get_with_auth under its tenacity decorator                 *)
(* @retry(stop=stop_after_attempt(3), wait=wait_exponential(...)): every   *)
(* exception of the request is retried until the stop condition holds.     *)
(***************************************************************************)

\* MAX_ATTEMPTS of the specification (its default).
MAX_ATTEMPTS == 5
\* The argument of stop_after_attempt in the decorator.
stop_after_attempt == 3

\* Mutant: the stop condition never holds.
NeverStops(attempt_number) == FALSE

\* tenacity.stop_after_attempt.__call__
Stop(attempt_number) == attempt_number >= stop_after_attempt

\* The request is sent: the first attempt of a call.
HttpGet(c) ==
    /\ http[c].pc = "idle"
    /\ http' = [http EXCEPT ![c] = [pc |-> "sending", attempt |-> 1]]
    /\ UNCHANGED <<syncVars, source_stream, sync_jobs, acl, neo4j, dag,
                   token_manager, health,
                   serviceVars>>

\* response.json() is returned.
HttpReturns(c) ==
    /\ http[c].pc = "sending"
    /\ http' = [http EXCEPT ![c].pc = "returned"]
    /\ UNCHANGED <<syncVars, source_stream, sync_jobs, acl, neo4j, dag,
                   token_manager, health,
                   serviceVars>>

\* client.get or raise_for_status raised: RetryError when the stop
\* condition holds, the exponential wait otherwise.
HttpRaises(c) ==
    /\ http[c].pc = "sending"
    /\ http' = [http EXCEPT ![c].pc =
           IF Stop(http[c].attempt) THEN "fatal" ELSE "waiting"]
    /\ UNCHANGED <<syncVars, source_stream, sync_jobs, acl, neo4j, dag,
                   token_manager, health,
                   serviceVars>>

\* The wait is over: the next attempt.
HttpRetry(c) ==
    /\ http[c].pc = "waiting"
    /\ http[c].attempt < MaxCount
    /\ http' = [http EXCEPT ![c] = [pc |-> "sending",
                                    attempt |-> http[c].attempt + 1]]
    /\ UNCHANGED <<syncVars, source_stream, sync_jobs, acl, neo4j, dag,
                   token_manager, health,
                   serviceVars>>

HttpNext ==
    \E c \in HttpCalls :
        \/ HttpGet(c)
        \/ HttpReturns(c)
        \/ HttpRaises(c)
        \/ HttpRetry(c)

HttpSpec == Init /\ [][HttpNext]_vars

(***************************************************************************)
(* The token manager of one source connection (section 4.7 of the          *)
(* specification; its module is not part of the sources) and the refresh   *)
(* request it sends through OAuth2Service.refresh_access_token.            *)
(***************************************************************************)

\* The access token runs out.
TokenExpires ==
    /\ ~token_manager.expired
    /\ token_manager' = [token_manager EXCEPT !.expired = TRUE]
    /\ UNCHANGED <<syncVars, source_stream, sync_jobs, acl, neo4j, dag, http,
                   health,
                   serviceVars>>

\* A worker asks for the token: it takes it when it is valid and queues for
\* the refresh when it finds it expired.
GetValidToken(w) ==
    /\ token_manager.worker[w] = "idle"
    /\ token_manager' = [token_manager EXCEPT !.worker[w] =
           IF token_manager.expired THEN "need_refresh" ELSE "using"]
    /\ UNCHANGED <<syncVars, source_stream, sync_jobs, acl, neo4j, dag, http,
                   health,
                   serviceVars>>

\* Mutant: the mutex admits everyone.
LockAlwaysFree(lock) == TRUE

\* The mutex around the refresh request can be taken.
LockFree(lock) == lock = 0

AcquireRefreshLock(w) ==
    /\ token_manager.worker[w] = "need_refresh"
    /\ LockFree(token_manager.lock)
    /\ token_manager' = [token_manager EXCEPT !.lock = w,
                                              !.worker[w] = "locked"]
    /\ UNCHANGED <<syncVars, source_stream, sync_jobs, acl, neo4j, dag, http,
                   health,
                   serviceVars>>

\* OAuth2Service.refresh_access_token: the request goes to the oauth2_service
\* singleton as it is; the adapter does not serialize anything.
RefreshAccessToken(w) ==
    /\ token_manager.worker[w] = "locked"
    /\ token_manager' = [token_manager EXCEPT
           !.in_flight = @ \cup {w},
           !.worker[w] = "refreshing"]
    /\ UNCHANGED <<syncVars, source_stream, sync_jobs, acl, neo4j, dag, http,
                   health,
                   serviceVars>>

\* The refresh endpoint answers, with a new token or with an error; the
\* mutex is released either way.
RefreshReturns(w, ok) ==
    /\ token_manager.worker[w] = "refreshing"
    /\ token_manager' = [token_manager EXCEPT
           !.in_flight = @ \ {w},
           !.expired = IF ok THEN FALSE ELSE @,
           !.lock = IF @ = w THEN 0 ELSE @,
           !.worker[w] = IF ok THEN "using" ELSE "auth_error"]
    /\ UNCHANGED <<syncVars, source_stream, sync_jobs, acl, neo4j, dag, http,
                   health,
                   serviceVars>>

\* The worker is done with its request.
RequestDone(w) ==
    /\ token_manager.worker[w] \in {"using", "auth_error"}
    /\ token_manager' = [token_manager EXCEPT !.worker[w] = "idle"]
    /\ UNCHANGED <<syncVars, source_stream, sync_jobs, acl, neo4j, dag, http,
                   health,
                   serviceVars>>

TokenNext ==
    \/ TokenExpires
    \/ \E w \in Workers :
          \/ GetValidToken(w)
          \/ AcquireRefreshLock(w)
          \/ RefreshAccessToken(w)
          \/ \E ok \in BOOLEAN : RefreshReturns(w, ok)
          \/ RequestDone(w)

TokenSpec == Init /\ [][TokenNext]_vars

(***************************************************************************)
(* The readiness check (airweave/core/health.py).                          *)
(***************************************************************************)

ProbeNames == {"postgres", "redis", "temporal"}
\* The timeout of one dependency check, in seconds.
CHECK_TIMEOUT == 5
Durations == 0..MaxDuration
\* What probe.check() does when it is left the time: it returns a check
\* that is up, skipped or down, raises an Exception, or raises an exception
\* that is a BaseException only (asyncio.CancelledError).
Behaviours == {"up", "skipped", "down", "raises", "raises_base"}

\* check_readiness up to asyncio.gather: while shutting down it returns at
\* once with every probe skipped.  `kind` tells the list a probe is in.
CheckReadiness(kind, shutting_down) ==
    /\ health.pc \in {"none", "done"}
    /\ LET all_probes == {p \in ProbeNames : kind[p] # "absent"}
       IN  health' =
             [pc |-> IF shutting_down THEN "done" ELSE "gather",
              kind |-> kind,
              shutting_down |-> shutting_down,
              outcome |-> [p \in ProbeNames |->
                              IF p \in all_probes /\ ~shutting_down
                              THEN "pending" ELSE "not_run"],
              executed |-> {},
              status |-> IF shutting_down THEN "not_ready" ELSE "none",
              checks |-> [p \in ProbeNames |->
                             IF p \in all_probes /\ shutting_down
                             THEN "skipped" ELSE "none"]]
    /\ UNCHANGED <<syncVars, source_stream, sync_jobs, acl, neo4j, dag, http,
                   token_manager,
                   serviceVars>>

\* asyncio.wait_for(probe.check(), timeout=_CHECK_TIMEOUT) gives up on a
\* check that takes longer; at the very limit either side can be first.
TimedOut(d, timer_first) ==
    d > CHECK_TIMEOUT \/ (d = CHECK_TIMEOUT /\ timer_first)

\* _run_probe: (name, result), (name, exc) for an Exception, the timeout
\* included; any other exception leaves the coroutine.
RunProbe(p, behaviour, d, timer_first) ==
    /\ health.pc = "gather"
    /\ health.outcome[p] = "pending"
    /\ health' = [health EXCEPT
           !.executed = @ \cup {p},
           !.outcome[p] =
               IF TimedOut(d, timer_first) THEN "timeout"
               ELSE CASE behaviour = "up" -> "result_up"
                      [] behaviour = "skipped" -> "result_skipped"
                      [] behaviour = "down" -> "result_down"
                      [] behaviour = "raises" -> "exception"
                      [] behaviour = "raises_base" -> "base_exception"]
    /\ UNCHANGED <<syncVars, source_stream, sync_jobs, acl, neo4j, dag, http,
                   token_manager,
                   serviceVars>>

critical_names(kind) == {p \in ProbeNames : kind[p] = "critical"}

\* The loop over the results of gather and the response.
CollectResults ==
    /\ health.pc = "gather"
    /\ \A p \in ProbeNames : health.outcome[p] # "pending"
    /\ LET down == {p \in ProbeNames :
                       health.outcome[p] \in {"exception", "timeout"}}
           ready == down \cap critical_names(health.kind) = {}
       IN  health' = [health EXCEPT
               !.pc = "done",
               !.status = IF ready THEN "ready" ELSE "not_ready",
               !.checks = [p \in ProbeNames |->
                   CASE p \in down -> "down"
                     [] health.outcome[p] = "result_up" -> "up"
                     [] health.outcome[p] = "result_skipped" -> "skipped"
                     [] health.outcome[p] = "result_down" -> "down"
                     [] OTHER -> "none"]]
    /\ UNCHANGED <<syncVars, source_stream, sync_jobs, acl, neo4j, dag, http,
                   token_manager,
                   serviceVars>>

HealthNext ==
    \/ \E kind \in [ProbeNames -> {"critical", "informational", "absent"}],
          shutting_down \in BOOLEAN : CheckReadiness(kind, shutting_down)
    \/ \E p \in ProbeNames, behaviour \in Behaviours, d \in Durations,
          timer_first \in BOOLEAN : RunProbe(p, behaviour, d, timer_first)
    \/ CollectResults

HealthSpec == Init /\ [][HealthNext]_vars

(***************************************************************************)
(* The OAuth callback (domains/oauth/callback_service.py): one init        *)
(* session, its shell source connection, and the callbacks that arrive     *)
(* with a state.  Each callback is a request of its own, with its own      *)
(* database session.                                                       *)
(***************************************************************************)

\* The writes of _complete_connection_common, in their order.
UowSteps(federated) ==
    IF federated
    THEN <<"credential", "connection", "shell", "session">>
    ELSE <<"credential", "connection", "sync", "shell", "session">>

\* Mutant: a callback is let through whatever the status of the session.
StatusAdmitsAny(status) == TRUE

\* `if init_session.status != ConnectionInitStatus.PENDING: raise 400`
StatusAdmits(status) == status = "PENDING"

\* complete_oauth2_callback / complete_oauth1_callback up to the check of the
\* session: 404 for a state no session has, 400 for a session not PENDING.
ReceiveCallback(c, state, federated) ==
    /\ oauth.cb[c].pc = "idle"
    /\ oauth' = [oauth EXCEPT
           !.cb[c].state = state,
           !.cb[c].federated = federated,
           !.cb[c].pc = IF state # SessionState THEN "rejected_404"
                        ELSE IF ~StatusAdmits(oauth.session)
                             THEN "rejected_400"
                             ELSE "checked"]
    /\ UNCHANGED <<syncVars, source_stream, sync_jobs, acl, componentVars,
                   deletion, pool>>

\* _reconstruct_context and the lookup of the shell (404 without one; for
\* OAuth1 also 400 when the source has no OAuth1 settings).
LookupShell(c, found) ==
    /\ oauth.cb[c].pc = "checked"
    /\ oauth' = [oauth EXCEPT
           !.cb[c].pc = IF found THEN "exchange" ELSE "failed"]
    /\ UNCHANGED <<syncVars, source_stream, sync_jobs, acl, componentVars,
                   deletion, pool>>

\* oauth_flow_service.complete_oauth2_callback: the code is exchanged for
\* the tokens at the provider.
TokenExchange(c, ok) ==
    /\ oauth.cb[c].pc = "exchange"
    /\ oauth' = [oauth EXCEPT
           !.cb[c].exchanged = TRUE,
           !.cb[c].pc = IF ok THEN "uow" ELSE "failed"]
    /\ UNCHANGED <<syncVars, source_stream, sync_jobs, acl, componentVars,
                   deletion, pool>>

\* Mutant: a crud call commits although it was handed the unit of work.
CommitsAlways(uow) == TRUE

\* CRUDBaseOrganization.create/update: `if not uow: await db.commit()`
CommitsItself(uow) == ~uow

NextWrite(c) ==
    LET steps == UowSteps(oauth.cb[c].federated)
    IN  steps[CHOOSE k \in DOMAIN steps :
                  /\ steps[k] \notin oauth.cb[c].tx
                  /\ \A m \in 1..(k - 1) : steps[m] \in oauth.cb[c].tx]

\* The next write inside `async with UnitOfWork(db) as uow`; an exception
\* leaves the block and the unit of work rolls back.
UowWrite(c, fails) ==
    /\ oauth.cb[c].pc = "uow"
    /\ oauth.cb[c].tx # Range(UowSteps(oauth.cb[c].federated))
    /\ oauth' =
         IF fails
         THEN [oauth EXCEPT !.cb[c].tx = {}, !.cb[c].pc = "failed"]
         ELSE IF CommitsItself(TRUE)
              THEN [oauth EXCEPT
                       !.cb[c].tx = @ \cup {NextWrite(c)},
                       !.cb[c].writes = @ + 1,
                       !.persisted[NextWrite(c)] = @ \cup {c},
                       !.session = IF NextWrite(c) = "session"
                                   THEN "COMPLETED" ELSE @]
              ELSE [oauth EXCEPT !.cb[c].tx = @ \cup {NextWrite(c)},
                                 !.cb[c].writes = @ + 1]
    /\ UNCHANGED <<syncVars, source_stream, sync_jobs, acl, componentVars,
                   deletion, pool>>

\* uow.commit(): every write of the unit of work becomes visible at once.
UowCommit(c, fails) ==
    /\ oauth.cb[c].pc = "uow"
    /\ oauth.cb[c].tx = Range(UowSteps(oauth.cb[c].federated))
    /\ oauth' =
         IF fails
         THEN [oauth EXCEPT !.cb[c].tx = {}, !.cb[c].pc = "failed"]
         ELSE [oauth EXCEPT
                  !.persisted = [r \in Records |->
                                    IF r \in oauth.cb[c].tx
                                    THEN @[r] \cup {c} ELSE @[r]],
                  !.session = "COMPLETED",
                  !.cb[c].pc = "committed"]
    /\ UNCHANGED <<syncVars, source_stream, sync_jobs, acl, componentVars,
                   deletion, pool>>

\* What follows the commit: uow.session.refresh(source_conn) and
\* _finalize_callback (response, workflow of the first sync job).
FinalizeCallback(c, fails) ==
    /\ oauth.cb[c].pc = "committed"
    /\ oauth' = [oauth EXCEPT
           !.cb[c].pc = IF fails THEN "failed_after_commit" ELSE "returned"]
    /\ UNCHANGED <<syncVars, source_stream, sync_jobs, acl, componentVars,
                   deletion, pool>>

OAuthNext ==
    \E c \in Callbacks :
        \/ \E state \in {SessionState, "missing"}, federated \in BOOLEAN :
              ReceiveCallback(c, state, federated)
        \/ \E found \in BOOLEAN : LookupShell(c, found)
        \/ \E ok \in BOOLEAN : TokenExchange(c, ok)
        \/ \E fails \in BOOLEAN : UowWrite(c, fails)
        \/ \E fails \in BOOLEAN : UowCommit(c, fails)
        \/ \E fails \in BOOLEAN : FinalizeCallback(c, fails)

OAuthSpec == Init /\ [][OAuthNext]_vars

(***************************************************************************)
(* The deletion of a source connection (SourceConnectionDeletionService;   *)
(* delete.py is not part of the sources, the service is the one its tests  *)
(* in test_delete.py describe) and the last job of its sync.               *)
(***************************************************************************)

ActiveStatus == {"PENDING", "RUNNING", "CANCELLING"}
JobStatusAtDelete == ActiveStatus \cup {"COMPLETED", "FAILED", "CANCELLED"}

\* delete(db, id, ctx): the connection and its collection are found;
\* `job` is the status of the last job of the sync, "none" without a sync.
DeleteSourceConnection(job) ==
    /\ deletion.pc = "none"
    /\ deletion' = [pc |-> IF job \in ActiveStatus THEN "cancel" ELSE "delete",
                    has_sync |-> job # "none",
                    job_at_start |-> job,
                    job |-> job,
                    cancel |-> "none",
                    polls |-> 0,
                    waited |-> "none",
                    deleted |-> FALSE,
                    job_at_delete |-> "none",
                    cleanup |-> "none"]
    /\ UNCHANGED <<syncVars, source_stream, sync_jobs, acl, componentVars,
                   oauth, pool>>

\* Mutant: a failed cancel request ends the deletion.
CancelErrorAborts == "aborted"

\* The cancel failure is warned about and not re-raised.
AfterCancelError == "wait"

\* sync_lifecycle.cancel_job for the running job.
RequestCancel(ok) ==
    /\ deletion.pc = "cancel"
    /\ deletion' = [deletion EXCEPT
           !.cancel = IF ok THEN "requested" ELSE "failed",
           !.job = IF ok /\ @ \in {"PENDING", "RUNNING"}
                   THEN "CANCELLING" ELSE @,
           !.pc = IF ok THEN "wait" ELSE AfterCancelError]
    /\ UNCHANGED <<syncVars, source_stream, sync_jobs, acl, componentVars,
                   oauth, pool>>

\* The job moves on by itself: it starts, or it reaches a terminal state.
JobMoves(status) ==
    /\ deletion.pc \in {"cancel", "wait", "delete", "cleanup"}
    /\ deletion.job \in ActiveStatus
    /\ \/ deletion.job = "PENDING" /\ status = "RUNNING"
       \/ deletion.job \in {"PENDING", "RUNNING"}
              /\ status \in {"COMPLETED", "FAILED"}
       \/ deletion.job = "CANCELLING" /\ status = "CANCELLED"
    /\ deletion' = [deletion EXCEPT !.job = status]
    /\ UNCHANGED <<syncVars, source_stream, sync_jobs, acl, componentVars,
                   oauth, pool>>

\* _wait_for_sync_job_terminal_state: the status of the job is read again
\* and again; True when it is terminal, False when the time is over, and the
\* deletion goes on either way.
WaitForSyncJobTerminalState ==
    /\ deletion.pc = "wait"
    /\ deletion' =
         IF deletion.job \notin ActiveStatus
         THEN [deletion EXCEPT !.waited = "terminal", !.pc = "delete"]
         ELSE IF deletion.polls >= MaxPolls
              THEN [deletion EXCEPT !.waited = "timeout", !.pc = "delete"]
              ELSE [deletion EXCEPT !.polls = @ + 1]
    /\ UNCHANGED <<syncVars, source_stream, sync_jobs, acl, componentVars,
                   oauth, pool>>

\* sc_repo.remove: the source connection is deleted.
RemoveSourceConnection ==
    /\ deletion.pc = "delete"
    /\ deletion' = [deletion EXCEPT
           !.deleted = TRUE,
           !.job_at_delete = deletion.job,
           !.pc = IF deletion.has_sync THEN "cleanup" ELSE "done"]
    /\ UNCHANGED <<syncVars, source_stream, sync_jobs, acl, componentVars,
                   oauth, pool>>

\* start_cleanup_sync_data_workflow; its failure is logged, not raised.
StartCleanupWorkflow(ok) ==
    /\ deletion.pc = "cleanup"
    /\ deletion' = [deletion EXCEPT
           !.cleanup = IF ok THEN "started" ELSE "failed",
           !.pc = "done"]
    /\ UNCHANGED <<syncVars, source_stream, sync_jobs, acl, componentVars,
                   oauth, pool>>

DeletionNext ==
    \/ \E job \in JobStatusAtDelete \cup {"none"} : DeleteSourceConnection(job)
    \/ \E ok \in BOOLEAN : RequestCancel(ok)
    \/ \E status \in JobStatusAtDelete : JobMoves(status)
    \/ WaitForSyncJobTerminalState
    \/ RemoveSourceConnection
    \/ \E ok \in BOOLEAN : StartCleanupWorkflow(ok)

DeletionSpec == Init /\ [][DeletionNext]_vars

(***************************************************************************)
(* The pool of entity tasks of _process_stream_with_concurrency, by        *)
(* numbers: the tasks are alike, so the pool is the number of tasks that   *)
(* wait for the semaphore and the number of tasks that hold it.            *)
(***************************************************************************)

\* len(pending_tasks): the done callback discards a task when it ends.
Pending(p) == p.waiting + p.running

\* run() is called: `pending_tasks = set()`, a fresh semaphore.
PoolStart ==
    /\ pool.pc = "idle"
    /\ pool' = [pc |-> "loop", created |-> 0, waiting |-> 0, running |-> 0,
                semaphore |-> MAX_WORKERS, awaited |-> 0, timeouts |-> 0,
                failed |-> 0, finalized |-> 0]
    /\ UNCHANGED <<syncVars, source_stream, sync_jobs, acl, componentVars,
                   oauth, deletion>>

\* One iteration of the `async for`: create_task, pending_tasks.add, and
\* `if len(pending_tasks) >= MAX_WORKERS * 2: await self._wait_for_tasks(
\* pending_tasks, asyncio.FIRST_COMPLETED, 0.5)`.
PullEntity ==
    /\ pool.pc = "loop"
    /\ pool.created < MaxEntities
    /\ pool' = [pool EXCEPT
           !.created = @ + 1,
           !.waiting = @ + 1,
           !.awaited = IF Pending(pool) + 1 >= MAX_WORKERS * 2
                       THEN Pending(pool) + 1 ELSE 0,
           !.pc = IF Pending(pool) + 1 >= MAX_WORKERS * 2
                  THEN "wait_for_tasks" ELSE "loop"]
    /\ UNCHANGED <<syncVars, source_stream, sync_jobs, acl, componentVars,
                   oauth, deletion>>

\* asyncio.wait(pending_tasks, return_when=FIRST_COMPLETED, timeout=0.5)
\* returns when one of the tasks it was given has ended, or when the 0.5 s
\* are over with none of them ended; the loop then asks for the next entity.
WaitForTasks(timed_out) ==
    /\ pool.pc = "wait_for_tasks"
    /\ IF timed_out
       THEN Pending(pool) = pool.awaited
       ELSE Pending(pool) < pool.awaited
    /\ pool' = [pool EXCEPT
           !.pc = "loop",
           !.awaited = 0,
           !.timeouts = IF timed_out THEN @ + 1 ELSE @]
    /\ UNCHANGED <<syncVars, source_stream, sync_jobs, acl, componentVars,
                   oauth, deletion>>

\* The generator is exhausted: `if pending_tasks:
\* await self._wait_for_all_pending_tasks(pending_tasks)`.
PoolEndOfStream ==
    /\ pool.pc = "loop"
    /\ pool' = [pool EXCEPT
           !.pc = IF Pending(pool) > 0 THEN "wait_all" ELSE "finalize_stream"]
    /\ UNCHANGED <<syncVars, source_stream, sync_jobs, acl, componentVars,
                   oauth, deletion>>

\* The generator raises: the exception leaves the loop past
\* _wait_for_all_pending_tasks.
PoolSourceRaises ==
    /\ pool.pc = "loop"
    /\ pool' = [pool EXCEPT !.pc = "finalize_raised"]
    /\ UNCHANGED <<syncVars, source_stream, sync_jobs, acl, componentVars,
                   oauth, deletion>>

\* `while pending_tasks:` of _wait_for_all_pending_tasks: a round that ends
\* by its timeout of 10 s with tasks left changes nothing and is followed by
\* the next round; the function returns when pending_tasks is empty.
PoolWaitForAll ==
    /\ pool.pc = "wait_all"
    /\ Pending(pool) = 0
    /\ pool' = [pool EXCEPT !.pc = "finalize_stream"]
    /\ UNCHANGED <<syncVars, source_stream, sync_jobs, acl, componentVars,
                   oauth, deletion>>

\* progress.finalize() in the finally clause of _process_entity_stream and,
\* on the way of a normal return, again in run().
PoolFinalize ==
    /\ pool.pc \in {"finalize_stream", "finalize_run", "finalize_raised"}
    /\ pool' = [pool EXCEPT
           !.finalized = @ + 1,
           !.pc = CASE pool.pc = "finalize_stream" -> "finalize_run"
                    [] pool.pc = "finalize_run" -> "returned"
                    [] OTHER -> "raised"]
    /\ UNCHANGED <<syncVars, source_stream, sync_jobs, acl, componentVars,
                   oauth, deletion>>

\* `async with semaphore` is entered by a task that waits.
PoolAcquire ==
    /\ pool.pc # "idle"
    /\ pool.waiting > 0
    /\ pool.semaphore > 0
    /\ pool' = [pool EXCEPT
           !.waiting = @ - 1, !.running = @ + 1, !.semaphore = @ - 1]
    /\ UNCHANGED <<syncVars, source_stream, sync_jobs, acl, componentVars,
                   oauth, deletion>>

\* Mutant: the semaphore is not released when a task ends.
ReleaseLost(value) == value

\* Semaphore.release() at the exit of `async with semaphore`.
Release(value) == value + 1

\* The calls of a task have returned or raised: the task leaves
\* `async with semaphore` and ends, and its done callback discards it from
\* pending_tasks.  The event loop goes on with the tasks when run() is over.
PoolTaskEnds(raised) ==
    /\ pool.pc # "idle"
    /\ pool.running > 0
    /\ pool' = [pool EXCEPT
           !.running = @ - 1,
           !.semaphore = Release(@),
           !.failed = IF raised THEN @ + 1 ELSE @]
    /\ UNCHANGED <<syncVars, source_stream, sync_jobs, acl, componentVars,
                   oauth, deletion>>

PoolNext ==
    \/ PoolStart
    \/ PullEntity
    \/ \E timed_out \in BOOLEAN : WaitForTasks(timed_out)
    \/ PoolEndOfStream
    \/ PoolSourceRaises
    \/ PoolWaitForAll
    \/ PoolFinalize
    \/ PoolAcquire
    \/ \E raised \in BOOLEAN : PoolTaskEnds(raised)

PoolSpec == Init /\ [][PoolNext]_vars

\* The generator of a source that emits finitely many entities ends or
\* raises; a wait of run() ends when what it waits for has happened or its
\* timeout is over; the event loop runs every task that can run, and the
\* calls of a task return or raise.
PoolFairness ==
    /\ WF_vars(PullEntity \/ PoolEndOfStream \/ PoolSourceRaises)
    /\ WF_vars(\E timed_out \in BOOLEAN : WaitForTasks(timed_out))
    /\ WF_vars(PoolWaitForAll)
    /\ WF_vars(PoolFinalize)
    /\ WF_vars(PoolAcquire)
    /\ WF_vars(\E raised \in BOOLEAN : PoolTaskEnds(raised))

PoolLiveSpec == PoolSpec /\ PoolFairness

(***************************************************************************)
(* Properties                                                              *)
(***************************************************************************)

Emitted == {stream[i] : i \in 1..Len(stream)}
FailedTasks == {i \in TaskIds : task[i].pc = "failed"}
InDestination == {i \in TaskIds : task[i].pc \in InDestinationCall}

\* C1: when a job reruns the previous job on an unchanged upstream (the
\* generator yields the same entities with the same hashes) and no entity
\* task raised in either job, the second job ends with inserted = 0,
\* updated = 0 and already_sync = the number of entities the source emitted.
C1_Idempotence ==
    (mainpc = "returned" /\ prev.rerun /\ ~TaskRaised) =>
        /\ stream = prev.stream
        /\ progress.inserted = 0
        /\ progress.updated = 0
        /\ progress.already_sync = Len(stream)

C1_Witness ==
    /\ mainpc = "returned"
    /\ prev.rerun
    /\ ~TaskRaised
    /\ Len(stream) >= 2
    /\ Emitted = EntityIds
    /\ progress.already_sync = Len(stream)

\* C2: the step that decides the action of an entity decides it from the rows
\* the entity table holds for its entity_id at that moment: INSERT if there
\* is none, KEEP (the task counts already_sync and ends) if a row has the
\* entity's hash, UPDATE otherwise.
C2_ActionFromStateRow ==
    [][\A i \in TaskIds :
         (task[i].pc = "decide" /\ task'[i].pc \in {"persist", "done"}) =>
            IF RowsOf(entity_state, stream[i]) = {}
            THEN task'[i].pc = "persist" /\ task'[i].action = "INSERT"
            ELSE IF \E r \in RowsOf(entity_state, stream[i]) :
                        r.hash = content[stream[i]]
                 THEN /\ task'[i].pc = "done"
                      /\ progress'.already_sync = progress.already_sync + 1
                 ELSE task'[i].pc = "persist" /\ task'[i].action = "UPDATE"]_vars

C2_Witness ==
    /\ progress.inserted >= 1
    /\ progress.updated >= 1
    /\ progress.already_sync >= 1

\* C3: after a job that returned with no entity task raising, every entity
\* the source emitted in the job has a row in the entity table, and the row's
\* hash is the entity's hash.
C3_StateCoherence ==
    (mainpc = "returned" /\ ~TaskRaised) =>
        \A i \in 1..Len(stream) :
            \E r \in entity_state :
                r.entity_id = stream[i] /\ r.hash = EntityHash(stream[i])

C3_Witness ==
    /\ mainpc = "returned"
    /\ ~TaskRaised
    /\ progress.inserted >= 1
    /\ progress.updated >= 1
    /\ destFailed # {}

\* C4: an entity for which a destination write failed has, in the entity
\* table, the rows it had when the job started (none for an INSERT, the old
\* hash for an UPDATE).
C4_StateNotAdvancedOnDestinationFailure ==
    \A i \in destFailed :
        RowsOf(entity_state, stream[i]) = RowsOf(state_at_start, stream[i])

\* C5: when the job returns, the failed counter is the number of entities
\* whose task raised or for which a destination write failed.
C5_FailuresCounted ==
    mainpc = "returned" =>
        progress.failed = Cardinality(FailedTasks \cup destFailed)

\* C6: a job in which a read or write of the entity table raised does not
\* return normally.
C6_StoreFailureFatal ==
    mainpc = "returned" => ~storeFault

\* C7: when a job has returned, an entity that had a row when the job started
\* and that the source did not emit in the job has no row any more, and every
\* destination has received a delete of the row's id.
C7_DeletionOnRemoval ==
    mainpc = "returned" =>
        \A r \in state_at_start :
            r.entity_id \notin Emitted =>
                /\ RowsOf(entity_state, r.entity_id) = {}
                /\ \A d \in 1..NumDest : r.id \in dest_deleted[d]

\* C8: the entity table never holds two rows of the same entity_id.
C8_OneRowPerEntity ==
    \A r1 \in entity_state, r2 \in entity_state :
        r1.entity_id = r2.entity_id => r1 = r2

\* Two tasks of the same entity_id have both decided INSERT, one has created
\* the row and the other is about to call create.
C8_Witness ==
    \E i \in TaskIds :
        /\ task[i].pc = "persist"
        /\ task[i].action = "INSERT"
        /\ RowsOf(entity_state, stream[i]) # {}

\* C9: at most MAX_WORKERS entity tasks are in a destination call.
C9_BoundedConcurrency ==
    Cardinality(InDestination) <= MAX_WORKERS

C9_Witness ==
    /\ Cardinality(InDestination) = MAX_WORKERS
    /\ \E i \in TaskIds : task[i].pc = "waiting"

WellFormedRow(r) ==
    /\ r.entity_id \in EntityIds
    /\ r.hash \in Hashes
    /\ r.sync_job_id \in 1..run
    /\ r.id[1] = r.entity_id

\* C10: once a job is cancelled, every row of the entity table is complete,
\* and it is a row the job found when it started or its hash is the hash of
\* an entity of that entity_id the source emitted in the job.
C10_CancelLeavesStateConsistent ==
    mainpc = "cancelled" =>
        \A r \in entity_state :
            /\ WellFormedRow(r)
            /\ \/ r \in state_at_start
               \/ \E i \in 1..Len(stream) :
                    stream[i] = r.entity_id /\ r.hash = EntityHash(stream[i])

C10_Witness ==
    /\ mainpc = "cancelled"
    /\ entity_state # state_at_start
    /\ \E i \in TaskIds : task[i].pc = "cancelled"
    /\ \E i \in TaskIds : task[i].pc \in InDestinationCall

\* C11: when a job has returned with every entity processed and every
\* destination write done, the stored cursor is the cursor of that job.
C11_CursorAdvancesOnSuccess ==
    (mainpc = "returned" /\ ~TaskRaised /\ destFailed = {}) => cursor = run

\* C12: run() raises only when the source generator raised, never because
\* an entity task raised, and when run() has returned every entity the source
\* emitted has been processed to its end.
C12_EntityErrorIsolated ==
    /\ mainpc \in {"finalize_raised", "raised"} => error = "source"
    /\ mainpc = "returned" =>
           \A i \in 1..Len(stream) : task[i].pc \in {"done", "failed"}

\* A job has returned in which the task of one entity raised and the task of
\* an entity emitted later wrote its row.
C12_Witness ==
    /\ mainpc = "returned"
    /\ progress.inserted >= 1
    /\ \E i \in TaskIds, j \in TaskIds :
          i < j /\ task[i].pc = "failed" /\ task[j].pc = "done"

\* C13: a task that is in a call to a destination goes on to a call to the
\* same or to the next destination, whether the call returns or raises; it
\* ends only after the call to the last destination (or when it is
\* cancelled).
C13_OtherDestinationsAttempted ==
    [][\A i \in TaskIds :
         (task[i].pc \in InDestinationCall /\ task'[i] # task[i]
            /\ task'[i].pc # "cancelled") =>
            IF task'[i].pc \in InDestinationCall
            THEN \/ task'[i].dest = task[i].dest
                 \/ task'[i].dest = task[i].dest + 1
            ELSE task[i].dest = NumDest /\ task'[i].pc = "done"]_vars

\* A call to the first destination has raised and the task is in a call to
\* the second.
C13_Witness ==
    \E i \in destFailed :
        task[i].pc \in InDestinationCall /\ task[i].dest = NumDest

\* C14: for an UPDATE the bulk_insert to a destination is issued only when
\* the delete of the id of the existing row has returned from that
\* destination, the delete is issued for no other action and no other id,
\* and a task that ends with no destination call failed has deleted at every
\* destination; an INSERT goes to bulk_insert directly.
C14_DeleteThenInsertOnUpdate ==
    [][\A i \in TaskIds :
         /\ (task'[i].pc = "dest_insert" /\ task'[i] # task[i]
                /\ task'[i].action = "UPDATE") =>
               /\ task[i].pc = "dest_delete"
               /\ task[i].dest = task'[i].dest
               /\ task[i].db_entity.id \in dest_deleted'[task[i].dest]
         /\ (task'[i].pc = "dest_delete") =>
               /\ task'[i].action = "UPDATE"
               /\ \E r \in RowsOf(entity_state', stream[i]) :
                     r.id = task'[i].db_entity.id
         /\ (task'[i].action = "INSERT" /\ task'[i].pc \in InDestinationCall) =>
               task'[i].pc = "dest_insert"
         /\ (task[i].pc = "dest_insert" /\ task[i].action = "UPDATE"
                /\ task'[i].pc = "done" /\ i \notin destFailed') =>
               \A d \in 1..NumDest : task[i].db_entity.id \in dest_deleted'[d]]_vars

\* An UPDATE is in bulk_insert at the last destination and every destination
\* has received the delete of the row's id.
C14_Witness ==
    \E i \in TaskIds :
        /\ task[i].pc = "dest_insert"
        /\ task[i].action = "UPDATE"
        /\ task[i].dest = NumDest
        /\ i \notin destFailed
        /\ \A d \in 1..NumDest : task[i].db_entity.id \in dest_deleted[d]

\* C15: when the entity table holds a row of the entity with the entity's
\* hash, the step that decides the action ends the task, writes neither the
\* entity table nor a destination, and changes no counter but already_sync,
\* which grows by one.
C15_KeepWritesNothing ==
    [][\A i \in TaskIds :
         (/\ task[i].pc = "decide"
          /\ task'[i].pc # "decide"
          /\ task'[i].pc \notin {"failed", "cancelled"}
          /\ \E r \in RowsOf(entity_state, stream[i]) :
                r.hash = EntityHash(stream[i])) =>
            /\ task'[i].pc = "done"
            /\ entity_state' = entity_state
            /\ dest_deleted' = dest_deleted
            /\ destFailed' = destFailed
            /\ progress' = [progress EXCEPT
                              !.already_sync = progress.already_sync + 1]]_vars

\* A job has returned that kept every entity: the entity table is as the job
\* found it.
C15_Witness ==
    /\ mainpc = "returned"
    /\ Len(stream) >= 1
    /\ progress.already_sync = Len(stream)
    /\ entity_state = state_at_start
    /\ entity_state # {}

\* C17: when run() has raised the exception of the source generator, every
\* task created before has ended.
C17_InFlightDrainedBeforeError ==
    (mainpc = "raised" /\ error = "source") =>
        \A i \in 1..Len(stream) : task[i].pc \in {"done", "failed"}

\* C19: a task that is in a call to a destination has no database session
\* open.
C19_NoSessionAcrossDestinationCall ==
    \A i \in TaskIds : task[i].pc \in InDestinationCall => i \notin db_open

C18_BackPressure ==
    Len(source_stream.queue) <= STREAM_BUFFER

\* The buffer is full while the generator has more to yield: the producer is
\* suspended.
C18_Witness ==
    /\ Len(source_stream.queue) = STREAM_BUFFER
    /\ source_stream.producer = "running"
    /\ source_stream.generated < MaxStream

\* The members a table holds for a group.
MembersOf(rows, g) == {row[2] : row \in {x \in rows : x[1] = g}}

\* The members a list of changes ADDs to a group.
AddedTo(changes, g) ==
    {changes[k].member :
        k \in {n \in 1..Len(changes) : /\ changes[n].change_type = "ADD"
                                        /\ changes[n].group_id = g}}

C21_ReconciliationOnlyUnderBasicFlags ==
    (acl.pc = "reconcile" \/ acl.queried # {}) =>
        /\ ~acl.result.incremental_values
        /\ acl.result.modified_group_ids # {}

\* A result with incremental_values = TRUE and modified groups was applied
\* and no group was read.
C21_Witness ==
    /\ acl.pc = "done"
    /\ acl.result.incremental_values
    /\ acl.result.modified_group_ids # {}
    /\ acl.adds >= 1
    /\ acl.queried = {}

\* C22: the step that handles deleted_group_ids leaves no row of a deleted
\* group and every row of the other groups, and counts the rows it removed;
\* the total the pass reports is adds + removes + that count.
C22_DeletedGroups ==
    [][/\ (acl.pc = "deleted_groups" /\ acl'.pc # "deleted_groups") =>
            /\ \A g \in acl.result.deleted_group_ids :
                  MembersOf(acl'.memberships, g) = {}
            /\ \A g \in Groups \ acl.result.deleted_group_ids :
                  MembersOf(acl'.memberships, g) = MembersOf(acl.memberships, g)
            /\ acl'.deleted = Cardinality(acl.memberships)
                                 - Cardinality(acl'.memberships)
       /\ (acl.pc = "cursor" /\ acl'.pc = "done") =>
            /\ acl'.total = acl.adds + acl.removes + acl.deleted
            /\ \A g \in acl.result.deleted_group_ids :
                  MembersOf(acl'.memberships, g) = {}]_vars

\* A pass has ended that added a member and removed both rows of a deleted
\* group.
C22_Witness ==
    /\ acl.pc = "done"
    /\ acl.deleted = 2
    /\ acl.adds >= 1
    /\ acl.total = acl.adds + acl.removes + 2

\* C23: once source.get_acl_changes has raised, the pass is in the full
\* re-sync or has ended with it, and what it then returns is the result of
\* the full re-sync.
C23_FallbackToFull ==
    acl.source_error =>
        /\ acl.pc \in {"full", "done_full"}
        /\ acl.pc = "done_full" => acl.total = Cardinality(acl.memberships)

\* The source raised, the table held rows, and the full re-sync has returned
\* another table.
C23_Witness ==
    /\ acl.source_error
    /\ acl.pc = "done_full"
    /\ acl.before # {}
    /\ acl.memberships # acl.before
    /\ acl.total >= 1

\* C24: the stored acl_dirsync_cookie is the one the pass found until the
\* incremental pass ends with success, and then it is the cookie of the
\* DirSync result, also for a result with no change.
C24_CookieAdvancesOnSuccessOnly ==
    /\ acl.pc \in {"start", "apply", "reconcile", "deleted_groups", "cursor",
                    "full"} => acl.cookie = "old_cookie"
    /\ acl.pc = "done" => acl.cookie = acl.result.cookie_b64

\* A pass whose result had no change and no deleted group has ended.
C24_Witness ==
    /\ acl.pc = "done"
    /\ acl.result.changes = <<>>
    /\ acl.result.deleted_group_ids = {}
    /\ acl.total = 0
    /\ acl.cookie = "new_cookie"

\* C25: after any number of bulk_insert calls the destination holds exactly
\* one record for every inserted db_entity_id, and it is the record of the
\* last insert (a second insert of the same id overwrites).
C25_BulkInsertIdempotent ==
    neo4j.pc = "open" =>
        \A id \in NodeIds :
            neo4j.inserted[id] # "none" =>
                /\ Cardinality(NodesWith(neo4j.nodes, id)) = 1
                /\ \A k \in NodesWith(neo4j.nodes, id) :
                       neo4j.nodes[k].hash = neo4j.inserted[id]

\* The edges of the batches that failed in the last relationship write.
EdgesOfFailedBatches ==
    {k \in DOMAIN neo4j.rel.rels :
        neo4j.rel.raised \/ neo4j.rel.rels[k] \in neo4j.rel.failed_types}

\* C26: when a bulk relationship write fails, every relationship of the
\* failed batch is handed to the per-edge write, also the ones that come
\* after an edge whose own write failed.
C26_PerEdgeFallback ==
    neo4j.pc = "open" =>
        \A k \in EdgesOfFailedBatches : k \in Range(neo4j.rel.attempted)

\* A failed batch in which an edge failed and a later edge was written.
C26_Witness ==
    /\ neo4j.pc = "open"
    /\ \E k1, k2 \in EdgesOfFailedBatches :
           /\ k1 < k2
           /\ neo4j.rel.rels[k1] = neo4j.rel.rels[k2]
           /\ k1 \in neo4j.rel.edge_failed
           /\ k2 \in neo4j.rel.written

\* C27: when the DAG has no path from the producing node to a destination,
\* processing an entity yields the action KEEP and no children.
C27_NoPathYieldsKeep ==
    (dag.pc = "processed" /\ ~HasPath(dag.edges, SourceNode)) =>
        (dag.action = "KEEP" /\ dag.children = {})

\* C28: a failing HTTP call is attempted at most MAX_ATTEMPTS times, and once
\* its last attempt has failed the error is fatal: the call is never
\* attempted again.
C28_RetriesFatalAfterMaxAttempts ==
    /\ [](\A c \in HttpCalls : http[c].attempt <= MAX_ATTEMPTS)
    /\ [][\A c \in HttpCalls :
              http[c].pc = "fatal" => http'[c] = http[c]]_vars
    /\ [][\A c \in HttpCalls :
              (http[c].pc = "sending" /\ http'[c].pc = "waiting")
                  => http[c].attempt < MAX_ATTEMPTS]_vars

\* A call whose every attempt failed, up to the fatal one.
C28_Witness ==
    \E c \in HttpCalls :
        http[c].pc = "fatal" /\ http[c].attempt = stop_after_attempt

\* C29: for one source connection at most one token refresh request is in
\* flight at any time, however many workers found the token expired.
C29_OneRefreshInFlight ==
    Cardinality(token_manager.in_flight) <= 1

\* Two more workers found the token expired while a refresh is in flight.
C29_Witness ==
    /\ token_manager.in_flight # {}
    /\ Cardinality({w \in Workers :
                       token_manager.worker[w] = "need_refresh"}) >= 2

\* The probes whose check raised or ran into the timeout.
FailedProbes ==
    {p \in ProbeNames :
        health.outcome[p] \in {"exception", "timeout", "base_exception"}}

\* C30: the readiness status is not_ready whenever a critical probe failed
\* (raised or ran into the timeout) or the service is shutting down; a
\* failing informational probe never changes the status; while shutting
\* down every probe is reported as skipped and none is executed.
C30_Readiness ==
    health.pc = "done" =>
        /\ health.status = "not_ready" <=>
               (\/ health.shutting_down
                \/ FailedProbes \cap critical_names(health.kind) # {})
        /\ health.shutting_down =>
               /\ health.executed = {}
               /\ \A p \in ProbeNames :
                      health.kind[p] # "absent" => health.checks[p] = "skipped"

\* The records of which callback c has persisted its write.
PersistedBy(c) == {r \in Records : c \in oauth.persisted[r]}

\* C31: a callback for a session that is not PENDING is rejected with 400,
\* one for an unknown session with 404; a rejected callback has exchanged
\* no token and has created no credential, connection or sync.
C31_RejectedBeforeExchange ==
    /\ [](\A c \in Callbacks :
             oauth.cb[c].pc \in {"rejected_400", "rejected_404"} =>
                 /\ ~oauth.cb[c].exchanged
                 /\ oauth.cb[c].tx = {}
                 /\ PersistedBy(c) = {})
    /\ [][\A c \in Callbacks :
              (oauth.cb[c].pc = "idle" /\ oauth'.cb[c].pc # "idle") =>
                  /\ oauth'.cb[c].state # SessionState
                         => oauth'.cb[c].pc = "rejected_404"
                  /\ (oauth'.cb[c].state = SessionState
                      /\ oauth.session # "PENDING")
                         => oauth'.cb[c].pc = "rejected_400"]_vars

\* A callback was rejected because another one had completed the session.
C31_Witness ==
    /\ oauth.session = "COMPLETED"
    /\ \E c \in Callbacks : oauth.cb[c].pc = "rejected_400"

\* C37: for one init session at most one callback completes the connection:
\* no record of the completion is persisted by two callbacks.
C37_OneCallbackCompletes ==
    \A r \in Records : Cardinality(oauth.persisted[r]) <= 1

C32_DeleteAfterTerminal ==
    /\ deletion.pc # "aborted"
    /\ deletion.pc \in {"cleanup", "done"} =>
           /\ deletion.deleted
           /\ deletion.job_at_start \in ActiveStatus =>
                  /\ deletion.cancel # "none"
                  /\ deletion.job_at_delete \notin ActiveStatus
    /\ (deletion.pc # "none" /\ deletion.cleanup # "none") => deletion.deleted

\* C32: a connection whose sync had a running job is deleted only after the
\* cancel was requested and the wait for the terminal state is over, because
\* the job is terminal or because the wait timed out; the cleanup starts
\* only after the deletion; a failed cancel request does not abort.
C32_DeleteAfterWait ==
    /\ deletion.pc # "aborted"
    /\ deletion.pc \in {"cleanup", "done"} =>
           /\ deletion.deleted
           /\ deletion.job_at_start \in ActiveStatus =>
                  /\ deletion.cancel # "none"
                  /\ deletion.waited # "none"
                  /\ deletion.waited = "terminal" =>
                         deletion.job_at_delete \notin ActiveStatus
           /\ deletion.job_at_start \notin ActiveStatus =>
                  deletion.cancel = "none"
    /\ (deletion.pc # "none" /\ deletion.cleanup # "none") => deletion.deleted

\* The cancel request failed, the job ended by itself during the wait, and
\* the connection was deleted and the cleanup started.
C32_Witness ==
    /\ deletion.pc = "done"
    /\ deletion.cancel = "failed"
    /\ deletion.waited = "terminal"
    /\ deletion.deleted
    /\ deletion.cleanup = "started"

\* C33: when run() has returned or raised, no entity task of the job is
\* still executing, so nothing is written or counted after the
\* finalization of the progress.
C33_NoTaskOutlivesRun ==
    mainpc \in {"returned", "raised"} =>
        /\ finalized >= 1
        /\ \A i \in TaskIds : task[i].pc \in Terminal

\* C35: when a job has returned, the counters inserted, updated,
\* already_sync, skipped and failed add up to the number of entities the
\* source emitted in the job.
C35_EveryEntityCounted ==
    mainpc = "returned" =>
        progress.inserted + progress.updated + progress.already_sync
            + progress.skipped + progress.failed = Len(stream)

\* C36: when run() has returned, has raised or was cancelled, the progress
\* was finalized exactly once.
C36_FinalizedOnce ==
    mainpc \in {"returned", "raised", "cancelled"} => finalized = 1

\* C34: the number of entity tasks created and not yet ended is never more
\* than 2 * MAX_WORKERS.
C34_PendingBounded ==
    pool.pc # "idle" => Pending(pool) <= MAX_WORKERS * 2

C39_ReadyOnlyIfCriticalUp ==
    (health.pc = "done" /\ health.status = "ready") =>
        \A p \in critical_names(health.kind) :
            health.outcome[p] \notin {"result_down", "result_skipped"}

====
